---- MODULE Spec2Model ----
(***************************************************************************)
(* openscad-step-reader: the command-line parser (parse_command_line) and  *)
(* the conversion pipeline of main (load, mesh, tessellate, export).       *)
(*                                                                         *)
(* A command-line argument is a sequence of characters, so that the        *)
(* parser's tests on arg[0] and arg[1], substr(2) and atof work on the     *)
(* text as the code does.  argv[0] is the program name; the C index i of   *)
(* argv is index i+1 of the sequence.                                      *)
(***************************************************************************)
EXTENDS Integers, Sequences, FiniteSets

\* ------------------------------------------------------------- bounds ---
\* Largest number of arguments after the program name.
MaxArgs == 4

\* ------------------------------------------------------------ strings ---
\* std::string::operator[]: the character at 0-based position i, and the
\* terminating NUL at position size().
CharAt(s, i) == IF i < Len(s) THEN s[i + 1] ELSE "NUL"

\* std::string::substr(pos): the text from 0-based position pos on.
substr(s, pos) == SubSeq(s, pos + 1, Len(s))

Digits == {"0", "1", "2", "3", "4", "5", "6", "7", "8", "9"}

DigitVal(c) ==
    CASE c = "0" -> 0 [] c = "1" -> 1 [] c = "2" -> 2 [] c = "3" -> 3
      [] c = "4" -> 4 [] c = "5" -> 5 [] c = "6" -> 6 [] c = "7" -> 7
      [] c = "8" -> 8 [] c = "9" -> 9

\* The number of decimal digits of s from 0-based position i on.
RECURSIVE DigitRun(_, _)
DigitRun(s, i) == IF CharAt(s, i) \in Digits THEN 1 + DigitRun(s, i + 1) ELSE 0

\* The value of the n decimal digits of s that start at position i,
\* appended to the value acc read so far.
RECURSIVE DigitsValue(_, _, _, _)
DigitsValue(s, i, n, acc) ==
    IF n = 0 THEN acc
    ELSE DigitsValue(s, i + 1, n - 1, 10 * acc + DigitVal(CharAt(s, i)))

RECURSIVE Pow10(_)
Pow10(n) == IF n = 0 THEN 1 ELSE 10 * Pow10(n - 1)

\* A double, as far as the program looks at it: a finite decimal
\* (-1)^neg * num / den, an infinity or a NaN.
Num(neg, num, den) == [cls |-> "num", neg |-> neg, num |-> num, den |-> den]
NaN == [cls |-> "nan", neg |-> FALSE, num |-> 0, den |-> 1]
Inf(neg) == [cls |-> "inf", neg |-> neg, num |-> 0, den |-> 1]

\* atof (strtod with no end pointer): an optional sign, then "nan", "inf"
\* or the longest decimal prefix digits[.digits]; text with no such prefix
\* converts to 0.  Trailing characters are ignored.
atof(s) ==
    LET neg   == CharAt(s, 0) = "-"
        start == IF CharAt(s, 0) \in {"-", "+"} THEN 1 ELSE 0
        word  == <<CharAt(s, start), CharAt(s, start + 1), CharAt(s, start + 2)>>
        nInt  == DigitRun(s, start)
        dot   == CharAt(s, start + nInt) = "."
        nFrac == IF dot THEN DigitRun(s, start + nInt + 1) ELSE 0
        int   == DigitsValue(s, start, nInt, 0)
        all   == DigitsValue(s, start + nInt + 1, nFrac, int)
    IN  IF word = <<"n", "a", "n">> THEN NaN
        ELSE IF word = <<"i", "n", "f">> THEN Inf(neg)
        ELSE IF nInt + nFrac = 0 THEN Num(FALSE, 0, 1)
        ELSE Num(neg, all, Pow10(nFrac))

\* The comparison v <= 0 on doubles: false for a NaN.
LeqZero(v) ==
    CASE v.cls = "nan" -> FALSE
      [] v.cls = "inf" -> v.neg
      [] OTHER -> v.num = 0 \/ v.neg

\* v > 0 on doubles.
Positive(v) ==
    CASE v.cls = "nan" -> FALSE
      [] v.cls = "inf" -> ~v.neg
      [] OTHER -> v.num > 0 /\ ~v.neg

\* The default linear tolerance 0.5.
DefaultLinTol == Num(FALSE, 5, 10)

\* ------------------------------------------------------ option table ---
OUT_UNDEFINED == "OUT_UNDEFINED"
OUT_STL_ASCII == "OUT_STL_ASCII"
OUT_STL_SCAD  == "OUT_STL_SCAD"
OUT_STL_FACES == "OUT_STL_FACES"
OUT_STL_OCCT  == "OUT_STL_OCCT"
OUT_EXPLORE   == "OUT_EXPLORE"

OutputFormat ==
    {OUT_UNDEFINED, OUT_STL_ASCII, OUT_STL_SCAD, OUT_STL_FACES, OUT_STL_OCCT,
     OUT_EXPLORE}

Option(name, has_arg, val) == [name |-> name, has_arg |-> has_arg, val |-> val]

\* The table up to its {0,0,0,0} terminator.
options ==
    << Option(<<"h","e","l","p">>, 0, "h"),
       Option(<<"v","e","r","s","i","o","n">>, 0, "V"),
       Option(<<"s","t","l","-","a","s","c","i","i">>, 0, "a"),
       Option(<<"s","t","l","-","s","c","a","d">>, 0, "s"),
       Option(<<"s","t","l","-","f","a","c","e","s">>, 0, "f"),
       Option(<<"s","t","l","-","o","c","c","t">>, 0, "o"),
       Option(<<"s","t","l","-","l","i","n","-","t","o","l">>, 1, "L"),
       Option(<<"e","x","p","l","o","r","e">>, 0, "e") >>

\* ---------------------------------------------------------- arguments ---
ProgramName == <<"p">>

\* The arguments the model draws argument vectors from: every selector,
\* help and version, the tolerance option, and three texts that start with
\* no "-" or convert with atof: "2" (a file name where an argument is
\* expected, a positive tolerance after -L), "-1" (an unknown option, a
\* negative tolerance after -L) and "nan" (a file name, not a number).
ArgTexts ==
    { <<"-","a">>,
      <<"-","-","s","t","l","-","s","c","a","d">>,
      <<"-","f">>,
      <<"-","o">>,
      <<"-","e">>,
      <<"-","h">>,
      <<"-","-","v","e","r","s","i","o","n">>,
      <<"-","L">>,
      <<"2">>,
      <<"-","1">>,
      <<"n","a","n">> }

RECURSIVE ArgVectors(_)
ArgVectors(n) ==
    IF n = 0 THEN {<<ProgramName>>}
    ELSE LET shorter == ArgVectors(n - 1)
         IN  shorter \cup
             {Append(v, a) : v \in {w \in shorter : Len(w) = n}, a \in ArgTexts}

\* -------------------------------------------------------------- state ---
VARIABLES
    argv,         \* the argument vector, argv[0] included
    argIndex,     \* parse_command_line: the C index of the argument in hand
    output,       \* the output format selected so far
    filename,     \* the input file name, empty until one is read
    stl_lin_tol,  \* the linear tolerance
    pc,           \* the program's position
    status,       \* the exit status, -1 while the process runs
    out,          \* what was written to standard output
    err,          \* what was written to the error stream
    disk,         \* the files written on disk
    shape,        \* main: the TopoDS_Shape
    faces,        \* main: the Face_vector
    calls,        \* history: the kernel and pipeline calls made, in order
    roles         \* history: what the parser took each argument for

vars ==
    <<argv, argIndex, output, filename, stl_lin_tol, pc, status, out, err,
      disk, shape, faces, calls, roles>>

argc == Len(argv)
ArgAt(i) == argv[i + 1]

NullShape == [faces |-> <<>>, loaded |-> FALSE, meshed |-> FALSE]

\* The state when parse_command_line enters its loop.
Init ==
    /\ argv \in ArgVectors(MaxArgs)
    /\ argIndex = 1
    /\ output = OUT_UNDEFINED
    /\ filename = <<>>
    /\ stl_lin_tol = DefaultLinTol
    /\ pc = "parse"
    /\ status = -1
    /\ out = <<>>
    /\ err = <<>>
    /\ disk = <<>>
    /\ shape = NullShape
    /\ faces = <<>>
    /\ calls = <<>>
    /\ roles = [i \in 1..(Len(argv) - 1) |-> "unread"]

\* exit(code), and main's return code.
Exit(code) == pc' = "exit" /\ status' = code

\* A call on record: the routine, its argument and what it returned.
Call(fn, arg, ret) == [fn |-> fn, arg |-> arg, ret |-> ret]

\* ------------------------------------------------ parse_command_line ---
\* show_help with its exit(0) left out: the switch breaks and the loop goes
\* on with the next argument.
show_help_NoExit ==
    /\ out' = Append(out, [by |-> "show_help", data |-> <<>>])
    /\ argIndex' = argIndex + 1
    /\ UNCHANGED <<pc, status, output, err>>

\* show_help: the help screen on standard output, then exit(0).
show_help ==
    /\ out' = Append(out, [by |-> "show_help", data |-> <<>>])
    /\ Exit(0)
    /\ UNCHANGED <<argIndex, output, err>>

\* show_version: the version on standard output, then exit(0).
show_version ==
    /\ out' = Append(out, [by |-> "show_version", data |-> <<42>>])
    /\ Exit(0)
    /\ UNCHANGED <<argIndex, output, err>>

\* The switch with a format, once selected, kept: the first selector wins.
SelectOutput_FirstWins(val, cur) ==
    IF cur # OUT_UNDEFINED THEN cur
    ELSE CASE val = "a" -> OUT_STL_ASCII
           [] val = "s" -> OUT_STL_SCAD
           [] val = "f" -> OUT_STL_FACES
           [] val = "o" -> OUT_STL_OCCT
           [] val = "e" -> OUT_EXPLORE
           [] OTHER -> cur

\* The switch on the option's value: the format an option selects, given
\* the format selected before it.
SelectOutput(val, cur) ==
    CASE val = "a" -> OUT_STL_ASCII
      [] val = "s" -> OUT_STL_SCAD
      [] val = "f" -> OUT_STL_FACES
      [] val = "o" -> OUT_STL_OCCT
      [] val = "e" -> OUT_EXPLORE
      [] OTHER -> cur

\* The body run for a matched option, the same for a long and for a short
\* one: read the tolerance when the option takes a value and one follows,
\* then dispatch on the option's value.
HandleOption(opt) ==
    LET hasValue == opt.has_arg = 1 /\ argIndex + 1 < argc
        isTol    == hasValue /\ opt.val = "L"
        text     == ArgAt(argIndex + 1)
        tol      == atof(text)
        seen     == IF isTol
                    THEN [roles EXCEPT ![argIndex] = "option",
                                       ![argIndex + 1] = "value"]
                    ELSE [roles EXCEPT ![argIndex] = "option"]
    IN  /\ roles' = seen
        /\ UNCHANGED filename
        /\ IF isTol /\ LeqZero(tol)
           THEN /\ stl_lin_tol' = tol
                /\ err' = Append(err, [msg |-> "Invalid tolerance value",
                                       text |-> text])
                /\ Exit(1)
                /\ UNCHANGED <<argIndex, output, out>>
           ELSE /\ stl_lin_tol' = IF isTol THEN tol ELSE stl_lin_tol
                /\ CASE opt.val = "h" -> show_help
                     [] opt.val = "V" -> show_version
                     [] OTHER ->
                          /\ output' = SelectOutput(opt.val, output)
                          /\ argIndex' = argIndex + (IF isTol THEN 2 ELSE 1)
                          /\ UNCHANGED <<pc, status, out, err>>

\* No entry of the table matches: "Unknown option", exit(1).
UnknownOption(arg) ==
    /\ err' = Append(err, [msg |-> "Unknown option", text |-> arg])
    /\ Exit(1)
    /\ roles' = [roles EXCEPT ![argIndex] = "option"]
    /\ UNCHANGED <<argIndex, output, filename, stl_lin_tol, out>>

\* The first entry of the table among the matching ones.
FirstMatch(S) == CHOOSE i \in S : \A j \in S : i <= j

\* An argument that starts with "--": the table is searched by name.
parse_long_option ==
    /\ pc = "parse"
    /\ argIndex < argc
    /\ LET arg == ArgAt(argIndex)
           option_name == substr(arg, 2)
           found == {i \in 1..Len(options) : option_name = options[i].name}
       IN  /\ CharAt(arg, 0) = "-"
           /\ CharAt(arg, 1) = "-"
           /\ IF found = {} THEN UnknownOption(arg)
              ELSE HandleOption(options[FirstMatch(found)])
    /\ UNCHANGED <<argv, disk, shape, faces, calls>>

\* An argument that starts with one "-": the table is searched by arg[1].
parse_short_option ==
    /\ pc = "parse"
    /\ argIndex < argc
    /\ LET arg == ArgAt(argIndex)
           option_char == CharAt(arg, 1)
           found == {i \in 1..Len(options) : option_char = options[i].val}
       IN  /\ CharAt(arg, 0) = "-"
           /\ CharAt(arg, 1) # "-"
           /\ IF found = {} THEN UnknownOption(arg)
              ELSE HandleOption(options[FirstMatch(found)])
    /\ UNCHANGED <<argv, disk, shape, faces, calls>>

\* Any other argument is taken for the file name.
parse_filename ==
    /\ pc = "parse"
    /\ argIndex < argc
    /\ CharAt(ArgAt(argIndex), 0) # "-"
    /\ filename' = ArgAt(argIndex)
    /\ argIndex' = argIndex + 1
    /\ roles' = [roles EXCEPT ![argIndex] = "filename"]
    /\ UNCHANGED <<argv, output, stl_lin_tol, pc, status, out, err, disk,
                   shape, faces, calls>>

\* After the loop: a file name and a format are required.
parse_finish ==
    /\ pc = "parse"
    /\ ~(argIndex < argc)
    /\ IF filename = <<>>
       THEN /\ err' = Append(err, [msg |-> "Missing input STEP filename",
                                   text |-> <<>>])
            /\ Exit(1)
       ELSE IF output = OUT_UNDEFINED
       THEN /\ err' = Append(err, [msg |-> "Missing output format option",
                                   text |-> <<>>])
            /\ Exit(1)
       ELSE /\ pc' = "load"
            /\ UNCHANGED <<err, status>>
    /\ UNCHANGED <<argv, argIndex, output, filename, stl_lin_tol, out, disk,
                   shape, faces, calls, roles>>

\* --------------------------------------------------------------- main ---
\* What a STEP file can hold: for each topological face of its shape, the
\* number of triangles the mesher gives the face (0: the face gets no
\* triangulation).
StepShapes == {<<>>, <<2, 0>>, <<1, 3>>}

\* The statuses STEPControl_Reader::ReadFile returns.
ReadStatuses == {"IFSelect_RetDone", "IFSelect_RetFail"}

\* The outcomes of StlAPI_Writer::Write: it returns true, it returns false,
\* or it throws Standard_ConstructionError.
WriteOutcomes == {"true", "false", "Standard_ConstructionError"}

\* The failed load reported with its return left out: main goes on.
LoadFailed_NoReturn ==
    /\ err' = Append(err, [msg |-> "Failed to load STEP file", text |-> filename])
    /\ pc' = "mesh"
    /\ UNCHANGED <<status, shape>>

\* ReadFile did not return IFSelect_RetDone: report and return 1.
LoadFailed ==
    /\ err' = Append(err, [msg |-> "Failed to load STEP file", text |-> filename])
    /\ Exit(1)
    /\ UNCHANGED shape

\* Reader.ReadFile, then TransferRoots and OneShape.
main_load ==
    /\ pc = "load"
    /\ \E s \in ReadStatuses :
          /\ calls' = Append(calls, Call("ReadFile", filename, s))
          /\ IF s # "IFSelect_RetDone"
             THEN LoadFailed
             ELSE /\ \E f \in StepShapes :
                        shape' = [faces |-> f, loaded |-> TRUE, meshed |-> FALSE]
                  /\ pc' = "mesh"
                  /\ UNCHANGED <<err, status>>
    /\ UNCHANGED <<argv, argIndex, output, filename, stl_lin_tol, out, disk,
                   faces, roles>>

\* BRepMesh_IncrementalMesh mesh(shape, stl_lin_tol); mesh.Perform().
main_mesh ==
    /\ pc = "mesh"
    /\ calls' = calls \o <<Call("BRepMesh_IncrementalMesh", stl_lin_tol, "void"),
                           Call("Perform", stl_lin_tol, "void")>>
    /\ shape' = [shape EXCEPT !.meshed = TRUE]
    /\ pc' = "tessellate"
    /\ UNCHANGED <<argv, argIndex, output, filename, stl_lin_tol, status, out,
                   err, disk, faces, roles>>

\* The test before tessellate_shape with OUT_STL_FACES left out.
NeedsTessellation_NoFaces(fmt) == fmt \in {OUT_STL_ASCII, OUT_STL_SCAD}

\* The formats whose exporter reads the Face_vector.
NeedsTessellation(fmt) == fmt \in {OUT_STL_ASCII, OUT_STL_SCAD, OUT_STL_FACES}

\* tessellate_shape: one Face, in the shape's face order, for each face
\* that carries a triangulation.
RECURSIVE FacesFrom(_, _)
FacesFrom(f, i) ==
    IF i > Len(f) THEN <<>>
    ELSE (IF f[i] > 0 THEN <<[index |-> i, triangles |-> f[i]]>> ELSE <<>>)
         \o FacesFrom(f, i + 1)

tessellate_shape(s) == IF s.meshed THEN FacesFrom(s.faces, 1) ELSE <<>>

\* if (ASCII or SCAD or FACES) faces = tessellate_shape(shape).
main_tessellate ==
    /\ pc = "tessellate"
    /\ IF NeedsTessellation(output)
       THEN /\ faces' = tessellate_shape(shape)
            /\ calls' = Append(calls, Call("tessellate_shape", shape,
                                         tessellate_shape(shape)))
       ELSE UNCHANGED <<faces, calls>>
    /\ pc' = "export"
    /\ UNCHANGED <<argv, argIndex, output, filename, stl_lin_tol, status, out,
                   err, disk, shape, roles>>

RECURSIVE TriangleCount(_)
TriangleCount(fv) ==
    IF fv = <<>> THEN 0 ELSE Head(fv).triangles + TriangleCount(Tail(fv))

\* One of the exporters of the project headers, writing to standard output;
\* main returns 0 after it.
Export(routine, data, arg) ==
    /\ out' = Append(out, [by |-> routine, data |-> data])
    /\ calls' = Append(calls, Call(routine, arg, "void"))
    /\ Exit(0)
    /\ UNCHANGED <<argv, argIndex, output, filename, stl_lin_tol, err, disk,
                   shape, faces, roles>>

\* case OUT_STL_ASCII: every triangle of every face, as one solid.
main_write_triangles_ascii_stl ==
    /\ pc = "export"
    /\ output = OUT_STL_ASCII
    /\ Export("write_triangles_ascii_stl", <<TriangleCount(faces)>>, faces)

\* case OUT_STL_SCAD: every triangle of every face, as one polyhedron.
main_write_triangle_scad ==
    /\ pc = "export"
    /\ output = OUT_STL_SCAD
    /\ Export("write_triangle_scad", <<TriangleCount(faces)>>, faces)

\* case OUT_STL_FACES: one coloured polyhedron for each face.
main_write_faces_scad ==
    /\ pc = "export"
    /\ output = OUT_STL_FACES
    /\ Export("write_faces_scad",
              [i \in 1..Len(faces) |-> faces[i].triangles], faces)

\* case OUT_EXPLORE: the debug walk of the shape.
main_explore_shape ==
    /\ pc = "export"
    /\ output = OUT_EXPLORE
    /\ Export("explore_shape", shape.faces, shape)

\* The name StlAPI_Writer::Write is given for its output file.
OcctWritePath == "stdout"

\* case OUT_STL_OCCT: StlAPI_Writer::Write(shape, path) writes the file
\* named path; its return value is not read, and only
\* Standard_ConstructionError is caught.
main_write_occt ==
    /\ pc = "export"
    /\ output = OUT_STL_OCCT
    /\ \E r \in WriteOutcomes :
          /\ calls' = Append(calls, Call("StlAPI_Writer::Write", OcctWritePath, r))
          /\ CASE r = "true" ->
                    /\ disk' = Append(disk, [path |-> OcctWritePath,
                                             data |-> shape.faces])
                    /\ Exit(0)
                    /\ UNCHANGED err
               [] r = "false" ->
                    /\ Exit(0)
                    /\ UNCHANGED <<disk, err>>
               [] OTHER ->
                    /\ err' = Append(err, [msg |-> "Failed to write OCCT/STL",
                                           text |-> <<>>])
                    /\ Exit(1)
                    /\ UNCHANGED disk
    /\ UNCHANGED <<argv, argIndex, output, filename, stl_lin_tol, out, shape,
                   faces, roles>>

Next ==
    \/ parse_long_option
    \/ parse_short_option
    \/ parse_filename
    \/ parse_finish
    \/ main_load
    \/ main_mesh
    \/ main_tessellate
    \/ main_write_triangles_ascii_stl
    \/ main_write_triangle_scad
    \/ main_write_faces_scad
    \/ main_write_occt
    \/ main_explore_shape

Spec == Init /\ [][Next]_vars

\* ------------------------------------------------- claim vocabulary ---
\* The spellings of the options as the help screen and the table give them.
Long(name) == <<"-", "-">> \o name

\* The spellings of the output-format selectors, each with its format.
SelectorSpellings ==
    { <<<<"-","a">>, OUT_STL_ASCII>>,
      <<Long(<<"s","t","l","-","a","s","c","i","i">>), OUT_STL_ASCII>>,
      <<<<"-","s">>, OUT_STL_SCAD>>,
      <<Long(<<"s","t","l","-","s","c","a","d">>), OUT_STL_SCAD>>,
      <<<<"-","f">>, OUT_STL_FACES>>,
      <<Long(<<"s","t","l","-","f","a","c","e","s">>), OUT_STL_FACES>>,
      <<<<"-","o">>, OUT_STL_OCCT>>,
      <<Long(<<"s","t","l","-","o","c","c","t">>), OUT_STL_OCCT>>,
      <<<<"-","e">>, OUT_EXPLORE>>,
      <<Long(<<"e","x","p","l","o","r","e">>), OUT_EXPLORE>> }

SelectorTexts == {e[1] : e \in SelectorSpellings}

IsSelector(a) == a \in SelectorTexts

\* The format a selector spelling stands for.
FormatOf(a) == (CHOOSE e \in SelectorSpellings : e[1] = a)[2]

HelpVersionTexts ==
    {<<"-","h">>, Long(<<"h","e","l","p">>),
     <<"-","V">>, Long(<<"v","e","r","s","i","o","n">>)}

IsHelpOrVersion(a) == a \in HelpVersionTexts

TolOptionTexts ==
    {<<"-","L">>, Long(<<"s","t","l","-","l","i","n","-","t","o","l">>)}

IsTolOption(a) == a \in TolOptionTexts

\* The C indexes of the arguments after the program name.
ArgIndexes == 1..(argc - 1)

\* The selectors the argument vector holds, and those the parser read as
\* options.
SuppliedSelectors == {i \in ArgIndexes : IsSelector(ArgAt(i))}
ParsedSelectors == {i \in SuppliedSelectors : roles[i] = "option"}

Last(S) == CHOOSE i \in S : \A j \in S : j <= i

RoutineOf(fmt) ==
    CASE fmt = OUT_STL_ASCII -> "write_triangles_ascii_stl"
      [] fmt = OUT_STL_SCAD -> "write_triangle_scad"
      [] fmt = OUT_STL_FACES -> "write_faces_scad"
      [] fmt = OUT_STL_OCCT -> "StlAPI_Writer::Write"
      [] fmt = OUT_EXPLORE -> "explore_shape"
      [] OTHER -> "none"

FaceExporters ==
    {"write_triangles_ascii_stl", "write_triangle_scad", "write_faces_scad"}

OutputRoutines == FaceExporters \cup {"StlAPI_Writer::Write", "explore_shape"}

CallsOf(fns) == {k \in 1..Len(calls) : calls[k].fn \in fns}

\* The run has left parse_command_line for the pipeline of main.
Proceeded == pc \in {"load", "mesh", "tessellate", "export"} \/ calls # <<>>

HelpShown == out # <<>> /\ out[1].by \in {"show_help", "show_version"}

\* main reached its return 0.
Converted == pc = "exit" /\ status = 0 /\ shape.loaded

UsageErrors ==
    {"Unknown option", "Invalid tolerance value", "Missing input STEP filename",
     "Missing output format option"}

\* ------------------------------------------------------------- claims ---
\* C1, as stated: the run proceeds only when exactly one output-format
\* selector was supplied; with none or more than one (help and version
\* aside) the process exits 1 and never reaches the file load.
C1_ExactlyOneSelector ==
    /\ Proceeded => Cardinality(SuppliedSelectors) = 1
    /\ (pc = "exit" /\ Cardinality(SuppliedSelectors) # 1 /\ ~HelpShown)
          => (status = 1 /\ calls = <<>>)

\* C1, amended: the run proceeds only when at least one selector was parsed
\* as an option, and it then uses the format of the last one parsed; with
\* no selector parsed no file load is ever made and the process, unless it
\* showed help or version, exits 1.
C1_LastSelectorWins ==
    /\ Proceeded =>
          /\ ParsedSelectors # {}
          /\ output = FormatOf(ArgAt(Last(ParsedSelectors)))
    /\ ParsedSelectors = {} =>
          /\ calls = <<>>
          /\ pc = "exit" => (status = 1 \/ HelpShown)

\* C1 witness: a conversion that ended with status 0 although two
\* different selectors were parsed.
C1_Witness ==
    /\ Converted
    /\ \E i, j \in ParsedSelectors : FormatOf(ArgAt(i)) # FormatOf(ArgAt(j))
    /\ CallsOf(OutputRoutines) # {}

\* The tolerance options the parser read that carry no positive number:
\* the option is the last argument, or the text after it does not convert
\* to a number above zero.
BadTolerance ==
    {i \in ArgIndexes :
        /\ roles[i] = "option"
        /\ IsTolOption(ArgAt(i))
        /\ (i = argc - 1 \/ ~Positive(atof(ArgAt(i + 1))))}

\* C2, as stated: a tolerance option whose value is missing, non-numeric,
\* zero or negative makes the process exit 1 with the message naming the
\* invalid value, before any file access.
C2_BadToleranceExits ==
    \A i \in BadTolerance :
        /\ pc = "exit"
        /\ status = 1
        /\ calls = <<>>
        /\ err # <<>>
        /\ err[1].msg = "Invalid tolerance value"

\* C3, as stated: an argument vector that holds a help or version flag at
\* any position exits 0 with nothing loaded, meshed or exported.
C3_HelpAnywhereExitsZero ==
    (\E i \in ArgIndexes : IsHelpOrVersion(ArgAt(i))) =>
        /\ calls = <<>>
        /\ pc = "exit" => status = 0

\* C3, amended: once the parser reads a help or version flag as an option
\* (no earlier argument ended the run, and the flag is not the value of a
\* tolerance option) the process has exited 0 with the help or version
\* text as its only output and nothing loaded, meshed or exported,
\* whatever follows the flag.
C3_HelpReachedExitsZero ==
    \A i \in ArgIndexes :
        (roles[i] = "option" /\ IsHelpOrVersion(ArgAt(i))) =>
            /\ pc = "exit"
            /\ status = 0
            /\ calls = <<>>
            /\ disk = <<>>
            /\ err = <<>>
            /\ Len(out) = 1
            /\ HelpShown

\* C3 witness: help or version ended the run with status 0 although an
\* unknown option or a tolerance option with no value follows it.
C3_Witness ==
    /\ pc = "exit"
    /\ status = 0
    /\ \E i, j \in ArgIndexes :
          /\ i < j
          /\ roles[i] = "option"
          /\ IsHelpOrVersion(ArgAt(i))
          /\ (ArgAt(j) = <<"-", "1">> \/ (IsTolOption(ArgAt(j)) /\ j = argc - 1))

\* The baseline writer failed: it returned false or it threw.
WriteFailed ==
    \E k \in CallsOf({"StlAPI_Writer::Write"}) : calls[k].ret # "true"

ReadFailed == \E k \in CallsOf({"ReadFile"}) : calls[k].ret # "IFSelect_RetDone"

\* C4, as stated: the exit status is 0 or 1; it is 1 on a usage error, a
\* failed load and any failure of the baseline write, thrown or returned;
\* it is 0 only after a conversion that succeeded or help or version.
C4_ExitStatus ==
    pc = "exit" =>
        /\ status \in {0, 1}
        /\ (err # <<>> \/ ReadFailed \/ WriteFailed) => status = 1
        /\ status = 0 => (HelpShown \/ (Converted /\ ~WriteFailed))

\* C5, as stated: a run ends either with output on standard output and
\* status 0, or with nothing on standard output, a diagnostic on the error
\* stream and a status other than 0.
C5_NoPartialOutcome ==
    pc = "exit" =>
        \/ (status = 0 /\ out # <<>> /\ err = <<>>)
        \/ (status # 0 /\ out = <<>> /\ err # <<>>)

\* C6, as stated: in every output mode the result of a successful run is
\* on standard output, and no mode writes it to a file on disk.
C6_OutputOnStdout ==
    /\ disk = <<>>
    /\ (Converted /\ ~WriteFailed) => out # <<>>

\* The place of a call in the pipeline: load, mesh, tessellate, export.
Stage(fn) ==
    CASE fn = "ReadFile" -> 1
      [] fn = "BRepMesh_IncrementalMesh" -> 2
      [] fn = "Perform" -> 3
      [] fn = "tessellate_shape" -> 4
      [] OTHER -> 5

\* C7: the calls are made in the order load, mesh, tessellate, export, each
\* at most once; tessellate_shape and the output routines run only after a
\* ReadFile that returned success and after Perform; a Face_vector exporter
\* receives what the one tessellate_shape call returned, and faces still
\* holds it; a conversion that returns 0 has called exactly one output
\* routine, that of the format selected on the command line.
C7_PipelineOrder ==
    /\ \A j, k \in 1..Len(calls) :
          j < k => Stage(calls[j].fn) < Stage(calls[k].fn)
    /\ \A k \in CallsOf({"tessellate_shape"} \cup OutputRoutines) :
          /\ \E j \in 1..(k - 1) :
                calls[j].fn = "ReadFile" /\ calls[j].ret = "IFSelect_RetDone"
          /\ \E j \in 1..(k - 1) : calls[j].fn = "Perform"
    /\ \A k \in CallsOf(FaceExporters) :
          /\ Cardinality(CallsOf({"tessellate_shape"})) = 1
          /\ \E j \in 1..(k - 1) :
                /\ calls[j].fn = "tessellate_shape"
                /\ calls[j].ret = calls[k].arg
                /\ calls[j].arg.meshed
          /\ faces = calls[k].arg
    /\ Converted =>
          /\ Cardinality(CallsOf(OutputRoutines)) = 1
          /\ calls[Len(calls)].fn = RoutineOf(FormatOf(ArgAt(Last(ParsedSelectors))))

\* C7 witness: write_faces_scad has run on a Face_vector that holds a face,
\* and main returned 0.
C7_Witness ==
    /\ Converted
    /\ \E k \in CallsOf({"write_faces_scad"}) : calls[k].arg # <<>>

\* C9: an error, once reported, ends the process with status 1 in that
\* very step, and no step is taken after it; no call is made twice; a run
\* that ends in a usage error has made no ReadFile, mesh, tessellate or
\* output call and has written nothing to standard output.
C9_FailFast ==
    /\ [](/\ err # <<>> => (pc = "exit" /\ status = 1 /\ Len(err) = 1)
          /\ \A j, k \in 1..Len(calls) : j # k => calls[j].fn # calls[k].fn
          /\ (err # <<>> /\ err[1].msg \in UsageErrors) =>
                (calls = <<>> /\ out = <<>> /\ disk = <<>>)
          /\ (err # <<>> /\ err[1].msg = "Failed to load STEP file") =>
                (Len(calls) = 1 /\ out = <<>> /\ disk = <<>>)
          /\ (err # <<>> /\ err[1].msg = "Failed to write OCCT/STL") =>
                (calls[Len(calls)].fn = "StlAPI_Writer::Write" /\ out = <<>>))
    /\ [][err = <<>> /\ status = -1]_vars

\* C9 witness: the load failed, and ReadFile is the only call made.
C9_Witness ==
    /\ pc = "exit"
    /\ status = 1
    /\ err # <<>>
    /\ err[1].msg = "Failed to load STEP file"
    /\ Len(calls) = 1

\* The tolerance values the parser consumed.
ConsumedValues == {i \in ArgIndexes : roles[i] = "value"}

\* C10, as stated: the tolerance given to BRepMesh_IncrementalMesh is above
\* zero; it is 0.5 when the parser consumed no tolerance value and the
\* value of the last one consumed otherwise; a consumed value is neither
\* the file name nor an option.
C10_MeshTolerancePositive ==
    \A k \in CallsOf({"BRepMesh_IncrementalMesh"}) :
        /\ Positive(calls[k].arg)
        /\ calls[k].arg = IF ConsumedValues = {} THEN DefaultLinTol
                          ELSE atof(ArgAt(Last(ConsumedValues)))
        /\ \A i \in ConsumedValues :
              /\ IsTolOption(ArgAt(i - 1))
              /\ roles[i - 1] = "option"

====
